---- MODULE Spec2Model ----
(***************************************************************************)
(* Model of scripts/generate-alphabet-paths.ts: the restricted path        *)
(* parser and serializer, and the three normalization passes over the      *)
(* glyph table.                                                            *)
(*                                                                         *)
(* Numbers.  The script computes in IEEE doubles; the model computes in    *)
(* fixed point.  One tick is 1e-7, a tenth of the serializer's rounding    *)
(* quantum (toFixed(6)), so formatNumber is a real rounding and not the    *)
(* identity.  A path string is modelled as the sequence of its lexical     *)
(* items: a number lexeme (what the number regex of line 136 matches) or a *)
(* single other character (a command letter, a space, any other letter).   *)
(***************************************************************************)
EXTENDS Integers, Sequences, FiniteSets, TLC

VARIABLES
  \* ---- parsePathData run as a machine (lines 96-201)
  pathData,        \* the argument string
  subpaths,        \* line 97
  current,         \* line 98: <<>> is null, <<s>> a subpath
  currentPoint,    \* line 99: <<>> is null, <<p>> a point
  subpathStart,    \* line 100
  lastCommand,     \* line 103: <<>> is null, <<[cmd, index]>>
  lastIndex,       \* commandTokenRegex.lastIndex, 1-based index of the next item to scan
  pstate,          \* "idle" | "scan" | "returned"
  \* ---- the script (lines 347-602)
  svgAlphabet,          \* line 5: the glyph table imported from index.ts
  keyOrder,             \* the order of its keys in index.ts, which Object.entries follows
  referenceFont,        \* line 56
  indexTs,              \* the persisted index.ts: its glyph table and exported glyphWidthRatio
  baseScaleX,           \* line 360
  baseScaleY,           \* line 364
  generatedAlphabet,    \* line 347
  transformed,          \* line 461, of the last Pass 1 iteration
  adjusted,             \* line 469, of the last Pass 1 iteration
  glyphWidthRatio,      \* line 495
  finalGlyphWidthRatio, \* line 522
  pc,                   \* where the script is
  entry,                \* index of the next entry of the running for-of loop
  run                   \* how many times the script has been started

parserVars == <<pathData, subpaths, current, currentPoint, subpathStart,
                lastCommand, lastIndex, pstate>>

scriptVars == <<svgAlphabet, keyOrder, referenceFont, indexTs, baseScaleX, baseScaleY,
                generatedAlphabet, transformed, adjusted, glyphWidthRatio,
                finalGlyphWidthRatio, pc, entry, run>>

vars == <<parserVars, scriptVars>>

----------------------------------------------------------------------------
\* Fixed point

\* ticks in 1.0
One == 10 * 1000 * 1000

\* ticks in 1e-6, the quantum of toFixed(6)
Micro == One \div (1000 * 1000)

Abs(a) == IF a < 0 THEN -a ELSE a

\* NaN, what parseFloat makes of a text that does not start with a number (line
\* 265): a value off the number line of the model, which no coordinate reaches.
\* Sums and differences with it, Math.min and Math.max of it are NaN, and every
\* comparison with it is false.
NaN == -(100 * One)

isNaN(a) == a = NaN

Plus(a, b) == IF isNaN(a) \/ isNaN(b) THEN NaN ELSE a + b

Minus(a, b) == IF isNaN(a) \/ isNaN(b) THEN NaN ELSE a - b

\* Math.min and Math.max of two numbers
Min2(a, b) == IF isNaN(a) \/ isNaN(b) THEN NaN ELSE IF a < b THEN a ELSE b

Max2(a, b) == IF isNaN(a) \/ isNaN(b) THEN NaN ELSE IF a > b THEN a ELSE b

\* a * num / den rounded to the nearest tick, without leaving 32 bits
MulDiv(a, num, den) ==
  (a \div den) * num + (((a % den) * num + (den \div 2)) \div den)

----------------------------------------------------------------------------
\* Lexical items of a path string

Num(v) == [k |-> "num", v |-> v, c |-> ""]

Ch(c) == [k |-> "ch", v |-> 0, c |-> c]

Sp == Ch(" ")

Point(x, y) == [x |-> x, y |-> y]

\* line 102: /[MLmlZz]/g
commandTokenRegex == {"M", "L", "m", "l", "Z", "z"}

IsCommand(item) == item.k = "ch" /\ item.c \in commandTokenRegex

toUpperCase(c) ==
  CASE c = "m" -> "M"
    [] c = "l" -> "L"
    [] c = "z" -> "Z"
    [] OTHER -> c

toLowerCase(c) ==
  CASE c = "M" -> "m"
    [] c = "L" -> "l"
    [] c = "Z" -> "z"
    [] OTHER -> c

\* line 136: data.match(number regex): the values of the number lexemes, in order
RECURSIVE matchNumbers(_)
matchNumbers(data) ==
  IF data = <<>> THEN <<>>
  ELSE IF Head(data).k = "num"
       THEN <<Head(data).v>> \o matchNumbers(Tail(data))
       ELSE matchNumbers(Tail(data))

\* pathData.slice(from, to) on items, 1-based, both ends included
Slice(s, from, to) == IF from > to THEN <<>> ELSE SubSeq(s, from, to)

\* commandTokenRegex.exec from lastIndex: index of the next command letter, 0 if none
RECURSIVE execRegex(_, _)
execRegex(s, from) ==
  IF from > Len(s) THEN 0
  ELSE IF IsCommand(s[from]) THEN from
  ELSE execRegex(s, from + 1)

----------------------------------------------------------------------------
\* parsePathData (lines 96-201)

ParserInit == [subpaths |-> <<>>, current |-> <<>>, currentPoint |-> <<>>,
               subpathStart |-> <<>>]

\* flushCurrent without the guard of line 107: with no current subpath, what is
\* pushed has no point
flushCurrent_noGuard(st) ==
  [st EXCEPT !.subpaths = Append(@, IF st.current # <<>> THEN st.current[1]
                                    ELSE [points |-> <<>>, closed |-> FALSE]),
             !.current = <<>>,
             !.subpathStart = <<>>]

\* lines 106-112
flushCurrent(st) ==
  [st EXCEPT !.subpaths = IF st.current # <<>> /\ Len(st.current[1].points) > 0
                          THEN Append(@, st.current[1]) ELSE @,
             !.current = <<>>,
             !.subpathStart = <<>>]

\* lines 145-157: the point a coordinate pair resolves to
resolvePoint(isRelative, cp, x, y) ==
  IF isRelative /\ cp # <<>>
  THEN Point(x + cp[1].x, y + cp[1].y)
  ELSE Point(x, y)

\* startSubpath without the flush of line 160
startSubpath_noFlush(st, nextPoint) ==
  [st EXCEPT !.current = <<[points |-> <<nextPoint>>, closed |-> FALSE]>>,
             !.subpathStart = <<nextPoint>>,
             !.currentPoint = <<nextPoint>>]

\* lines 159-164: the first pair of an M
startSubpath(st, nextPoint) ==
  [flushCurrent(st) EXCEPT !.current = <<[points |-> <<nextPoint>>, closed |-> FALSE]>>,
                           !.subpathStart = <<nextPoint>>,
                           !.currentPoint = <<nextPoint>>]

\* appendPoint without line 175: the current point stays where the command found it
appendPoint_staleCurrentPoint(st, nextPoint) ==
  IF st.current = <<>>
  THEN [st EXCEPT !.current = <<[points |-> <<nextPoint>>, closed |-> FALSE]>>,
                  !.subpathStart = <<nextPoint>>,
                  !.currentPoint = <<nextPoint>>]
  ELSE [st EXCEPT !.current = <<[@[1] EXCEPT !.points = Append(@, nextPoint)]>>]

\* lines 168-176: any other pair of an M or an L
appendPoint(st, nextPoint) ==
  IF st.current = <<>>
  THEN [st EXCEPT !.current = <<[points |-> <<nextPoint>>, closed |-> FALSE]>>,
                  !.subpathStart = <<nextPoint>>,
                  !.currentPoint = <<nextPoint>>]
  ELSE [st EXCEPT !.current = <<[@[1] EXCEPT !.points = Append(@, nextPoint)]>>,
                  !.currentPoint = <<nextPoint>>]

\* lines 144-179: the pair loop, from index i of numbers
RECURSIVE applyPairs(_, _, _, _, _, _)
applyPairs(st, command, isRelative, numbers, i, isFirstPair) ==
  IF i + 1 > Len(numbers) THEN st
  ELSE
    LET nextPoint == resolvePoint(isRelative, st.currentPoint, numbers[i], numbers[i + 1]) IN
    IF command = "M" /\ isFirstPair
    THEN applyPairs(startSubpath(st, nextPoint), command, isRelative, numbers, i + 2, FALSE)
    ELSE IF command = "M" \/ command = "L"
    THEN applyPairs(appendPoint(st, nextPoint), command, isRelative, numbers, i + 2, FALSE)
    ELSE applyPairs(st, command, isRelative, numbers, i + 2, FALSE)

\* closePath that also ends the subpath: it is pushed and nothing is current
closePath_endsSubpath(st) ==
  [st EXCEPT !.subpaths = IF st.current # <<>>
                          THEN Append(@, [st.current[1] EXCEPT !.closed = TRUE]) ELSE @,
             !.current = <<>>,
             !.currentPoint = IF st.subpathStart # <<>> THEN st.subpathStart ELSE @]

\* closePath without lines 130-132: the current point is not moved
closePath_noRewind(st) ==
  [st EXCEPT !.current = IF @ # <<>> THEN <<[@[1] EXCEPT !.closed = TRUE]>> ELSE @]

\* lines 126-133: Z
closePath(st) ==
  [st EXCEPT !.current = IF @ # <<>> THEN <<[@[1] EXCEPT !.closed = TRUE]>> ELSE @,
             !.currentPoint = IF st.subpathStart # <<>> THEN st.subpathStart ELSE @]

\* lines 124-180
applyCommand(st, cmd, data) ==
  LET command == toUpperCase(cmd) IN
  IF command = "Z" THEN closePath(st)
  ELSE
    LET numbers == matchNumbers(data) IN
    IF Len(numbers) < 2 THEN st
    ELSE applyPairs(st, command, cmd = toLowerCase(cmd), numbers, 1, TRUE)

\* lines 182-197: the command loop from lastIndex with lastCommand = last
RECURSIVE commandLoop(_, _, _, _)
commandLoop(s, st, last, from) ==
  LET m == execRegex(s, from) IN
  IF m = 0
  THEN IF last # <<>>
       THEN applyCommand(st, last[1].cmd, Slice(s, last[1].index + 1, Len(s)))
       ELSE st
  ELSE commandLoop(s,
                   IF last # <<>>
                   THEN applyCommand(st, last[1].cmd, Slice(s, last[1].index + 1, m - 1))
                   ELSE st,
                   <<[cmd |-> s[m].c, index |-> m]>>,
                   m + 1)

\* lines 96-201
parsePathData(s) == flushCurrent(commandLoop(s, ParserInit, <<>>, 1)).subpaths

----------------------------------------------------------------------------
\* serializeSubpaths (lines 228-255)

\* lines 228-232: toFixed(6), half away from zero; -0 becomes 0; NaN is written
\* as the text NaN, letters that are neither command letters nor digits
formatNumber(value) ==
  LET q == (Abs(value) + (Micro \div 2)) \div Micro
      rounded == IF value < 0 THEN -(q * Micro) ELSE q * Micro
  IN IF isNaN(value) THEN Ch("NaN") ELSE Num(rounded)

\* lines 242-251: the parts of one subpath, each part a string
RECURSIVE lineParts(_)
lineParts(points) ==
  IF points = <<>> THEN <<>>
  ELSE << <<Ch("L"), formatNumber(Head(points).x), Sp, formatNumber(Head(points).y)>> >>
       \o lineParts(Tail(points))

\* subpathParts without lines 249-251: no Z is written
subpathParts_noZ(subpath) ==
  << <<Ch("M"), formatNumber(subpath.points[1].x), Sp, formatNumber(subpath.points[1].y)>> >>
  \o lineParts(Tail(subpath.points))

subpathParts(subpath) ==
  << <<Ch("M"), formatNumber(subpath.points[1].x), Sp, formatNumber(subpath.points[1].y)>> >>
  \o lineParts(Tail(subpath.points))
  \o (IF subpath.closed THEN << <<Ch("Z")>> >> ELSE <<>>)

RECURSIVE allParts(_)
allParts(sps) ==
  IF sps = <<>> THEN <<>>
  ELSE (IF Len(Head(sps).points) = 0 THEN <<>> ELSE subpathParts(Head(sps)))
       \o allParts(Tail(sps))

\* parts.join(" ")
RECURSIVE join(_)
join(parts) ==
  IF parts = <<>> THEN <<>>
  ELSE IF Len(parts) = 1 THEN parts[1]
  ELSE parts[1] \o <<Sp>> \o join(Tail(parts))

\* lines 234-255
serializeSubpaths(sps) == join(allParts(sps))

----------------------------------------------------------------------------
\* Geometry (lines 203-345)

RECURSIVE concatPoints(_)
concatPoints(sps) ==
  IF sps = <<>> THEN <<>> ELSE Head(sps).points \o concatPoints(Tail(sps))

RECURSIVE seqMin(_)
seqMin(s) == IF Len(s) = 1 THEN s[1] ELSE Min2(s[1], seqMin(Tail(s)))

RECURSIVE seqMax(_)
seqMax(s) == IF Len(s) = 1 THEN s[1] ELSE Max2(s[1], seqMax(Tail(s)))

Xs(points) == [i \in 1..Len(points) |-> points[i].x]

Ys(points) == [i \in 1..Len(points) |-> points[i].y]

\* lines 203-226: Y is taken in the flipped frame, y' = 1 - y
getBoundingBox(sps) ==
  LET pts == concatPoints(sps) IN
  IF pts = <<>>
  THEN [minX |-> 0, maxX |-> 0, minY |-> 0, maxY |-> 0]
  ELSE [minX |-> seqMin(Xs(pts)), maxX |-> seqMax(Xs(pts)),
        minY |-> One - seqMax(Ys(pts)), maxY |-> One - seqMin(Ys(pts))]

\* String.prototype.split on one separator character: the pieces, in order
RECURSIVE split(_, _)
split(s, sep) ==
  LET RECURSIVE firstSep(_)
      firstSep(i) == IF i > Len(s) THEN 0
                     ELSE IF s[i] = Ch(sep) THEN i ELSE firstSep(i + 1)
      j == firstSep(1)
  IN IF j = 0 THEN <<s>>
     ELSE <<Slice(s, 1, j - 1)>> \o split(Slice(s, j + 1, Len(s)), sep)

\* String.prototype.trim
RECURSIVE trim(_)
trim(s) ==
  IF s = <<>> THEN s
  ELSE IF Head(s) = Sp THEN trim(Tail(s))
  ELSE IF s[Len(s)] = Sp THEN trim(Slice(s, 1, Len(s) - 1))
  ELSE s

\* parseFloat of a piece: the number it starts with, or NaN
parseFloat(piece) ==
  IF piece # <<>> /\ piece[1].k = "num" THEN piece[1].v ELSE NaN

\* line 265: pr.trim().split(" ").map(parseFloat); index i of the result, undefined as NaN
coordinate(pr, i) ==
  LET fields == split(trim(pr), " ") IN
  IF i <= Len(fields) THEN parseFloat(fields[i]) ELSE NaN

\* lines 268-277: the segments of one M-piece
segmentsOf(seg) ==
  [i \in 1..(Len(seg) - 1) |->
     [x1 |-> coordinate(seg[i], 1), y1 |-> Minus(One, coordinate(seg[i], 2)),
      x2 |-> coordinate(seg[i + 1], 1), y2 |-> Minus(One, coordinate(seg[i + 1], 2))]]

RECURSIVE flatSegments(_)
flatSegments(segs) ==
  IF segs = <<>> THEN <<>>
  ELSE segmentsOf(split(Head(segs), "L")) \o flatSegments(Tail(segs))

\* lines 259-280
getLineSegments(s) == flatSegments(Tail(split(s, "M")))

\* lines 282-300
getGlyphWidthRatio(segments, strokeWidthRatio) ==
  IF Len(segments) = 0 THEN 0
  ELSE
    LET radius == strokeWidthRatio \div 2
        lo == [i \in 1..Len(segments) |->
                 Min2(Minus(segments[i].x1, radius), Minus(segments[i].x2, radius))]
        hi == [i \in 1..Len(segments) |->
                 Max2(Plus(segments[i].x1, radius), Plus(segments[i].x2, radius))]
    IN Minus(seqMax(hi), seqMin(lo))

\* lines 302-310
getMaxYFromSubpaths(sps) ==
  LET pts == concatPoints(sps) IN
  IF pts = <<>> THEN 0 ELSE seqMax(Ys(pts))

\* lines 312-319
shiftSubpathsY(sps, deltaY) ==
  [i \in 1..Len(sps) |->
     [closed |-> sps[i].closed,
      points |-> [j \in 1..Len(sps[i].points) |->
                    Point(sps[i].points[j].x, sps[i].points[j].y + deltaY)]]]

\* lines 321-328
shiftSubpathsX(sps, deltaX) ==
  [i \in 1..Len(sps) |->
     [closed |-> sps[i].closed,
      points |-> [j \in 1..Len(sps[i].points) |->
                    Point(Plus(sps[i].points[j].x, deltaX), sps[i].points[j].y)]]]

\* a scale factor is a reduced fraction num/den
RECURSIVE Gcd(_, _)
Gcd(a, b) == IF b = 0 THEN a ELSE Gcd(b, a % b)

Frac(num, den) ==
  LET g == Gcd(num, den) IN [num |-> num \div g, den |-> den \div g]

FracMul(p, q) ==
  LET a == Frac(p.num, q.den)
      b == Frac(q.num, p.den)
  IN [num |-> a.num * b.num, den |-> a.den * b.den]

Scaled(v, f) == MulDiv(v, f.num, f.den)

\* lines 330-345
transformSubpaths(sps, scaleX, scaleY, xShift, yShift) ==
  [i \in 1..Len(sps) |->
     [closed |-> sps[i].closed,
      points |-> [j \in 1..Len(sps[i].points) |->
         LET point == sps[i].points[j]
             yCartesian == One - point.y
             xScaled == Scaled(point.x, scaleX) + xShift
             yScaled == Scaled(yCartesian, scaleY) + yShift
         IN Point(xScaled, One - yScaled)]]]

----------------------------------------------------------------------------
\* Program constants

UNITS_PER_EM == 1000

DESIGN_HEIGHT == UNITS_PER_EM

STROKE_WIDTH == 0

VERTICAL_SCALE == [num |-> 93, den |-> 100]

HORIZONTAL_SCALE == [num |-> 1, den |-> 1]

REFERENCE_CHAR == "H"

\* ticks of path space in one design unit of the reference metrics
DesignUnit == One \div UNITS_PER_EM

\* line 416: 0.08
dotTargetWidth == 8 * (One \div 100)

\* lines 497, 502, 521: 0.09
strokeWidthRatio == 9 * (One \div 100)

\* lines 489, 504: 1e-6
Epsilon == Micro

descenderChars == <<"g", "j", "p", "q", "y">>

----------------------------------------------------------------------------
\* getReferenceGlyphMetrics (lines 57-84); null is <<>>

getReferenceGlyphMetrics(font, char) ==
  LET glyph == font.glyphs[char]
      width == ((glyph.x2 - glyph.x1) * UNITS_PER_EM) \div font.unitsPerEm
      height == ((glyph.y2 - glyph.y1) * UNITS_PER_EM) \div font.unitsPerEm
      advanceWidth == (glyph.advanceWidth * UNITS_PER_EM) \div font.unitsPerEm
      leftSideBearing == (glyph.x1 * UNITS_PER_EM) \div font.unitsPerEm
      yMin == (glyph.y1 * UNITS_PER_EM) \div font.unitsPerEm
      yMax == (glyph.y2 * UNITS_PER_EM) \div font.unitsPerEm
  IN IF ~(width > 0) \/ ~(height > 0) \/ ~(advanceWidth > 0)
     THEN <<>>
     ELSE <<[width |-> width, height |-> height, advanceWidth |-> advanceWidth,
             leftSideBearing |-> leftSideBearing,
             rightSideBearing |-> advanceWidth - (glyph.x2 * UNITS_PER_EM) \div font.unitsPerEm,
             yMin |-> yMin, yMax |-> yMax]>>

----------------------------------------------------------------------------
\* adjustDotSubpath (lines 369-433)

subpathBox(subpath) ==
  [minX |-> seqMin(Xs(subpath.points)), maxX |-> seqMax(Xs(subpath.points)),
   minY |-> seqMin(Ys(subpath.points)), maxY |-> seqMax(Ys(subpath.points))]

\* lines 383-405: the scan for the dot; dotIndex 0 stands for -1, dotMinY <<>> for +Infinity
RECURSIVE dotScan(_, _, _)
dotScan(sps, i, acc) ==
  IF i > Len(sps) THEN acc
  ELSE IF Len(sps[i].points) = 0 THEN dotScan(sps, i + 1, acc)
  ELSE
    LET box == subpathBox(sps[i])
        width == box.maxX - box.minX
        height == box.maxY - box.minY
    IN IF height = 0 /\ width > 0 /\ (acc.dotMinY = <<>> \/ box.minY < acc.dotMinY[1])
       THEN dotScan(sps, i + 1, [dotIndex |-> i, dotMinY |-> <<box.minY>>, dotBbox |-> <<box>>])
       ELSE dotScan(sps, i + 1, acc)

\* rescaleDot without the Math.min of line 416: every dot is made 0.08 wide
rescaleDot_noMin(sps, dotIndex, dotBbox) ==
  LET width == dotBbox.maxX - dotBbox.minX
      scale == Frac(dotTargetWidth, width)
      centerX == (dotBbox.minX + dotBbox.maxX) \div 2
  IN [index \in 1..Len(sps) |->
        IF index # dotIndex THEN sps[index]
        ELSE [closed |-> sps[index].closed,
              points |-> [j \in 1..Len(sps[index].points) |->
                 Point(centerX + Scaled(sps[index].points[j].x - centerX, scale),
                       sps[index].points[j].y)]]]

\* rescaleDot with the left edge in the place of the centre of line 418
rescaleDot_aboutLeft(sps, dotIndex, dotBbox) ==
  LET width == dotBbox.maxX - dotBbox.minX
      targetWidth == Min2(width, dotTargetWidth)
      scale == Frac(targetWidth, width)
      centerX == dotBbox.minX
  IN [index \in 1..Len(sps) |->
        IF index # dotIndex THEN sps[index]
        ELSE [closed |-> sps[index].closed,
              points |-> [j \in 1..Len(sps[index].points) |->
                 Point(centerX + Scaled(sps[index].points[j].x - centerX, scale),
                       sps[index].points[j].y)]]]

\* lines 416-432: the rescaling of subpath dotIndex about its horizontal centre
rescaleDot(sps, dotIndex, dotBbox) ==
  LET width == dotBbox.maxX - dotBbox.minX
      targetWidth == Min2(width, dotTargetWidth)
      scale == Frac(targetWidth, width)
      centerX == (dotBbox.minX + dotBbox.maxX) \div 2
  IN [index \in 1..Len(sps) |->
        IF index # dotIndex THEN sps[index]
        ELSE [closed |-> sps[index].closed,
              points |-> [j \in 1..Len(sps[index].points) |->
                 Point(centerX + Scaled(sps[index].points[j].x - centerX, scale),
                       sps[index].points[j].y)]]]

adjustDotSubpath(sps, char) ==
  IF char # "i" /\ char # "j" THEN sps
  ELSE
    LET found == dotScan(sps, 1, [dotIndex |-> 0, dotMinY |-> <<>>, dotBbox |-> <<>>]) IN
    IF found.dotIndex < 1 \/ found.dotBbox = <<>> THEN sps
    ELSE IF ~(found.dotBbox[1].maxX - found.dotBbox[1].minX > 0) THEN sps
    ELSE rescaleDot(sps, found.dotIndex, found.dotBbox[1])

----------------------------------------------------------------------------
\* The script (lines 347-602)

\* an order of the keys of the table, and the same keys written the other way round
KeyOrder == <<"H", "i", "g", "j", "_", "x">>

Reversed(s) == [i \in 1..Len(s) |-> s[Len(s) + 1 - i]]

KeyOrders == {KeyOrder, Reversed(KeyOrder)}

Chars == {KeyOrder[i] : i \in 1..Len(KeyOrder)}

\* Object.entries: the entries of the table in the order of its keys
entries(table) == SelectSeq(keyOrder, LAMBDA c : c \in DOMAIN table)

\* a JS string is falsy when undefined or empty
falsy(table, char) == char \notin DOMAIN table \/ table[char] = <<>>

\* lines 349-358: width and height of the calibration character, in ticks
referenceCharBbox ==
  getBoundingBox(IF falsy(svgAlphabet, REFERENCE_CHAR) THEN <<>>
                 ELSE parsePathData(svgAlphabet[REFERENCE_CHAR]))

\* lines 349-367
Calibrate ==
  /\ pc = "calibrate"
  /\ LET bbox == referenceCharBbox
         referenceCharWidth == bbox.maxX - bbox.minX
         referenceCharHeight == bbox.maxY - bbox.minY
         referenceCharMetrics == getReferenceGlyphMetrics(referenceFont, REFERENCE_CHAR)
     IN /\ baseScaleX' =
             IF referenceCharMetrics # <<>> /\ referenceCharWidth > 0
             THEN FracMul(Frac(referenceCharMetrics[1].width * DesignUnit, referenceCharWidth),
                          HORIZONTAL_SCALE)
             ELSE HORIZONTAL_SCALE
        /\ baseScaleY' =
             IF referenceCharMetrics # <<>> /\ referenceCharHeight > 0
             THEN FracMul(Frac(referenceCharMetrics[1].height * DesignUnit, referenceCharHeight),
                          VERTICAL_SCALE)
             ELSE VERTICAL_SCALE
  /\ pc' = "pass1"
  /\ entry' = 1
  /\ UNCHANGED <<svgAlphabet, keyOrder, referenceFont, indexTs, generatedAlphabet, transformed,
                 adjusted, glyphWidthRatio, finalGlyphWidthRatio, run>>
  /\ UNCHANGED parserVars

\* table[char] = value, adding the key when it is new
put(table, char, value) ==
  [c \in DOMAIN table \cup {char} |-> IF c = char THEN value ELSE table[c]]

\* pass1Transform without the vertical shift of lines 456-459
pass1Transform_noYShift(sps, char) ==
  LET bbox == getBoundingBox(sps)
      strokePad == STROKE_WIDTH \div 2
      paddedMinX == bbox.minX - strokePad
      scaleX == baseScaleX
      scaleY == baseScaleY
      xMinScaled == Scaled(paddedMinX, scaleX)
      xShift == -xMinScaled
  IN transformSubpaths(sps, scaleX, scaleY, xShift, 0)

\* lines 442-467: the transform of one glyph
pass1Transform(sps, char) ==
  LET bbox == getBoundingBox(sps)
      strokePad == STROKE_WIDTH \div 2
      paddedMinX == bbox.minX - strokePad
      paddedMaxY == bbox.maxY + strokePad
      referenceMetrics == getReferenceGlyphMetrics(referenceFont, char)
      scaleX == baseScaleX
      scaleY == baseScaleY
      xMinScaled == Scaled(paddedMinX, scaleX)
      yMaxScaled == Scaled(paddedMaxY, scaleY)
      xShift == -xMinScaled
      yShift == IF referenceMetrics # <<>>
                THEN referenceMetrics[1].yMax * (One \div DESIGN_HEIGHT) - yMaxScaled
                ELSE 0
  IN transformSubpaths(sps, scaleX, scaleY, xShift, yShift)

\* lines 435-471: one iteration of the Pass 1 loop
Pass1Glyph ==
  /\ pc = "pass1"
  /\ entry <= Len(entries(svgAlphabet))
  /\ LET char == entries(svgAlphabet)[entry]
         pathData0 == svgAlphabet[char]
         sps == parsePathData(pathData0)
     IN IF Len(sps) = 0
        THEN /\ generatedAlphabet' = put(generatedAlphabet, char, pathData0)
             /\ transformed' = <<>>
             /\ adjusted' = <<>>
        ELSE /\ transformed' = pass1Transform(sps, char)
             /\ adjusted' = adjustDotSubpath(transformed', char)
             /\ generatedAlphabet' = put(generatedAlphabet, char, serializeSubpaths(adjusted'))
  /\ entry' = entry + 1
  /\ UNCHANGED <<svgAlphabet, keyOrder, referenceFont, indexTs, baseScaleX, baseScaleY,
                 glyphWidthRatio, finalGlyphWidthRatio, pc, run>>
  /\ UNCHANGED parserVars

\* lines 474-482
RECURSIVE descenderTarget(_, _, _)
descenderTarget(table, i, acc) ==
  IF i > Len(descenderChars) THEN acc
  ELSE IF falsy(table, descenderChars[i]) THEN descenderTarget(table, i + 1, acc)
  ELSE descenderTarget(table, i + 1,
         Max2(acc, getMaxYFromSubpaths(parsePathData(table[descenderChars[i]]))))

\* alignUnderscore without the guard of line 489: the underscore is shifted and
\* written again however small the shift
alignUnderscore_noGuard(table) ==
  LET descenderTargetY == descenderTarget(table, 1, 0) IN
  IF ~falsy(table, "_") /\ descenderTargetY > 0
  THEN LET underscoreSubpaths == parsePathData(table["_"])
           underscoreMaxY == getMaxYFromSubpaths(underscoreSubpaths)
           deltaY == descenderTargetY - underscoreMaxY
       IN put(table, "_", serializeSubpaths(shiftSubpathsY(underscoreSubpaths, deltaY)))
  ELSE table

\* lines 473-493 on a table
alignUnderscore(table) ==
  LET descenderTargetY == descenderTarget(table, 1, 0) IN
  IF ~falsy(table, "_") /\ descenderTargetY > 0
  THEN LET underscoreSubpaths == parsePathData(table["_"])
           underscoreMaxY == getMaxYFromSubpaths(underscoreSubpaths)
           deltaY == descenderTargetY - underscoreMaxY
       IN IF Abs(deltaY) > Epsilon
          THEN put(table, "_", serializeSubpaths(shiftSubpathsY(underscoreSubpaths, deltaY)))
          ELSE table
  ELSE table

\* Pass 2 entered when the Pass 1 loop still has its last entry to write
Pass2_early ==
  /\ pc = "pass1"
  /\ entry >= Len(entries(svgAlphabet))
  /\ generatedAlphabet' = alignUnderscore(generatedAlphabet)
  /\ pc' = "width"
  /\ UNCHANGED <<svgAlphabet, keyOrder, referenceFont, indexTs, baseScaleX, baseScaleY,
                 transformed, adjusted, glyphWidthRatio, finalGlyphWidthRatio, entry, run>>
  /\ UNCHANGED parserVars

\* Pass 2, lines 473-493, entered when the Pass 1 loop has ended
Pass2 ==
  /\ pc = "pass1"
  /\ entry > Len(entries(svgAlphabet))
  /\ generatedAlphabet' = alignUnderscore(generatedAlphabet)
  /\ pc' = "width"
  /\ UNCHANGED <<svgAlphabet, keyOrder, referenceFont, indexTs, baseScaleX, baseScaleY,
                 transformed, adjusted, glyphWidthRatio, finalGlyphWidthRatio, entry, run>>
  /\ UNCHANGED parserVars

\* the reduce with the stroke pad left out of the width
RECURSIVE maxGlyphWidth_noPad(_, _, _)
maxGlyphWidth_noPad(table, keys, maxWidth) ==
  IF keys = <<>> THEN maxWidth
  ELSE maxGlyphWidth_noPad(table, Tail(keys),
         Max2(maxWidth, getGlyphWidthRatio(getLineSegments(table[Head(keys)]), 0)))

\* the reduce of lines 495-499 and 522-529 over the table's values
RECURSIVE maxGlyphWidth(_, _, _)
maxGlyphWidth(table, keys, maxWidth) ==
  IF keys = <<>> THEN maxWidth
  ELSE maxGlyphWidth(table, Tail(keys),
         Max2(maxWidth, getGlyphWidthRatio(getLineSegments(table[Head(keys)]), strokeWidthRatio)))

\* lines 495-499
Pass3Width ==
  /\ pc = "width"
  /\ glyphWidthRatio' = maxGlyphWidth(generatedAlphabet, entries(generatedAlphabet), 0)
  /\ pc' = "pass3"
  /\ entry' = 1
  /\ UNCHANGED <<svgAlphabet, keyOrder, referenceFont, indexTs, baseScaleX, baseScaleY,
                 generatedAlphabet, transformed, adjusted, finalGlyphWidthRatio, run>>
  /\ UNCHANGED parserVars

\* lines 502-510: the body of the centering loop for one path
centerGlyph(s, unified) ==
  LET width == getGlyphWidthRatio(getLineSegments(s), strokeWidthRatio)
      slack == Minus(unified, width)
      centerDeltaX == IF isNaN(slack) THEN NaN ELSE slack \div 2
  IN IF ~isNaN(centerDeltaX) /\ Abs(centerDeltaX) <= Epsilon THEN s
     ELSE serializeSubpaths(shiftSubpathsX(parsePathData(s), centerDeltaX))

\* lines 501-511: one iteration of the centering loop
Pass3Glyph ==
  /\ pc = "pass3"
  /\ entry <= Len(entries(generatedAlphabet))
  /\ LET char == entries(generatedAlphabet)[entry] IN
     generatedAlphabet' = put(generatedAlphabet, char,
                              centerGlyph(generatedAlphabet[char], glyphWidthRatio))
  /\ entry' = entry + 1
  /\ UNCHANGED <<svgAlphabet, keyOrder, referenceFont, indexTs, baseScaleX, baseScaleY,
                 transformed, adjusted, glyphWidthRatio, finalGlyphWidthRatio, pc, run>>
  /\ UNCHANGED parserVars

\* lines 521-530, entered when the centering loop has ended
Metrics ==
  /\ pc = "pass3"
  /\ entry > Len(entries(generatedAlphabet))
  /\ finalGlyphWidthRatio' = maxGlyphWidth(generatedAlphabet, entries(generatedAlphabet), 0)
  /\ pc' = "write"
  /\ UNCHANGED <<svgAlphabet, keyOrder, referenceFont, indexTs, baseScaleX, baseScaleY,
                 generatedAlphabet, transformed, adjusted, glyphWidthRatio, entry, run>>
  /\ UNCHANGED parserVars

\* lines 513-519 and 555-602: the table and the metrics replace those of index.ts
WriteIndex ==
  /\ pc = "write"
  /\ indexTs' = [svgAlphabet |-> generatedAlphabet,
                 glyphWidthRatio |-> <<formatNumber(finalGlyphWidthRatio)>>]
  /\ pc' = "done"
  /\ UNCHANGED <<svgAlphabet, keyOrder, referenceFont, baseScaleX, baseScaleY, generatedAlphabet,
                 transformed, adjusted, glyphWidthRatio, finalGlyphWidthRatio, entry, run>>
  /\ UNCHANGED parserVars

\* how many times the script is started on its own output
MaxRuns == 2

\* the script is started again: it imports the table index.ts now holds (lines 5, 347)
Rerun ==
  /\ pc = "done"
  /\ run < MaxRuns
  /\ run' = run + 1
  /\ svgAlphabet' = indexTs.svgAlphabet
  /\ generatedAlphabet' = << >>
  /\ pc' = "calibrate"
  /\ entry' = 1
  /\ transformed' = <<>>
  /\ adjusted' = <<>>
  /\ UNCHANGED <<keyOrder, referenceFont, indexTs, baseScaleX, baseScaleY, glyphWidthRatio,
                 finalGlyphWidthRatio>>
  /\ UNCHANGED parserVars

----------------------------------------------------------------------------
\* Inputs: hand-authored glyph tables and reference fonts

\* n hundredths, in ticks
H100(n) == n * (One \div 100)

\* "c x y" as written by hand, coordinates in hundredths
W(c, x, y) == <<Ch(c), Num(H100(x)), Sp, Num(H100(y))>>

\* two stems, 0.5 wide and 1 high: "M0 0 L0 1 M0.5 0 L0.5 1"
GlyphH1 == W("M", 0, 0) \o <<Sp>> \o W("L", 0, 100) \o <<Sp>>
           \o W("M", 50, 0) \o <<Sp>> \o W("L", 50, 100)

\* 0.4 wide and 0.6 high, off the origin: "M0.1 0.2 L0.1 0.8 M0.5 0.2 L0.5 0.8"
GlyphH2 == W("M", 10, 20) \o <<Sp>> \o W("L", 10, 80) \o <<Sp>>
           \o W("M", 50, 20) \o <<Sp>> \o W("L", 50, 80)

\* a stem and a dot wider than the stem: "M0.5 0.3 L0.5 1 M0.3 0.1 L0.7 0.1 Z"
GlyphIWideDot == W("M", 50, 30) \o <<Sp>> \o W("L", 50, 100) \o <<Sp>>
                 \o W("M", 30, 10) \o <<Sp>> \o W("L", 70, 10) \o <<Sp, Ch("Z")>>

\* a foot, a stem and a narrow dot, relative and unspaced:
\* "M0.2 1l0.6 0M0.5 1L0.5 0.3M0.48 0.1l0.04 0"
GlyphINarrowDot == W("M", 20, 100) \o W("l", 60, 0) \o W("M", 50, 100) \o W("L", 50, 30)
                   \o W("M", 48, 10) \o W("l", 4, 0)

\* no dot: "M0.5 0 L0.5 1"
GlyphINoDot == W("M", 50, 0) \o <<Sp>> \o W("L", 50, 100)

\* "M0 0.4 L0.5 0.4 L0.5 1.2 L0 1.2"
GlyphG1 == W("M", 0, 40) \o <<Sp>> \o W("L", 50, 40) \o <<Sp>> \o W("L", 50, 120)
           \o <<Sp>> \o W("L", 0, 120)

\* drawn above the cell: "M0 -2 L0.5 -2 L0.5 -1.6"
GlyphGHigh == W("M", 0, -200) \o <<Sp>> \o W("L", 50, -200) \o <<Sp>> \o W("L", 50, -160)

\* a hooked stem and a dot: "M0.5 0.3 L0.5 1.3 L0.2 1.3 M0.4 0.1 L0.6 0.1"
GlyphJ == W("M", 50, 30) \o <<Sp>> \o W("L", 50, 130) \o <<Sp>> \o W("L", 20, 130)
          \o <<Sp>> \o W("M", 40, 10) \o <<Sp>> \o W("L", 60, 10)

\* "M0 1.1 L0.6 1.1"
GlyphUnderscore == W("M", 0, 110) \o <<Sp>> \o W("L", 60, 110)

\* a hair below the g of GlyphG1: "M0 1.2000011 L0.6 1.2000011"
GlyphUnderscoreNear == <<Ch("M"), Num(0), Sp, Num(H100(120) + 11), Sp,
                         Ch("L"), Num(H100(60)), Sp, Num(H100(120) + 11)>>

\* wider than the cell, with a seventh decimal: "M0 0l1.5000003 1"
GlyphWide == W("M", 0, 0) \o <<Ch("l"), Num(H100(150) + 3), Sp, Num(H100(100))>>

\* a lone point: "M0.5 0.5"
GlyphPoint == W("M", 50, 50)

\* commands without coordinates: "ML"
GlyphBare == <<Ch("M"), Ch("L")>>

\* present options are <<string>>, an absent key is <<>>
OptionsH == { <<>>, <<GlyphH1>>, <<GlyphH2>> }

OptionsI == { <<GlyphIWideDot>>, <<GlyphINarrowDot>>, <<GlyphINoDot>> }

OptionsG == { <<GlyphG1>>, <<GlyphGHigh>> }

OptionsJ == { <<>>, <<GlyphJ>> }

OptionsUnderscore == { <<GlyphUnderscore>>, <<GlyphUnderscoreNear>> }

OptionsX == { << <<>> >>, << <<Sp>> >>, <<GlyphWide>>, <<GlyphPoint>>, <<GlyphBare>> }

makeTable(opts) ==
  [c \in {d \in Chars : opts[d] # <<>>} |-> opts[c][1]]

Tables ==
  { makeTable([c \in Chars |->
       CASE c = "H" -> h [] c = "i" -> i [] c = "g" -> g
         [] c = "j" -> j [] c = "_" -> u [] OTHER -> x]) :
    h \in OptionsH, i \in OptionsI, g \in OptionsG,
    j \in OptionsJ, u \in OptionsUnderscore, x \in OptionsX }

\* a glyph of the reference font, in font units; .notdef has an empty box
FontGlyph(x1, y1, x2, y2, adv) ==
  [x1 |-> x1, y1 |-> y1, x2 |-> x2, y2 |-> y2, advanceWidth |-> adv]

Notdef == FontGlyph(0, 0, 0, 0, 1200)

FullFont ==
  [unitsPerEm |-> 2000,
   glyphs |-> [c \in Chars |->
      CASE c = "H" -> FontGlyph(200, 0, 1000, 1400, 1200)
        [] c = "i" -> FontGlyph(400, 0, 800, 1520, 1200)
        [] c = "g" -> FontGlyph(200, -400, 1000, 1100, 1200)
        [] c = "j" -> FontGlyph(300, -400, 800, 1520, 1200)
        [] c = "_" -> FontGlyph(0, -240, 1200, -140, 1200)
        [] OTHER -> FontGlyph(100, 0, 1100, 1100, 1200)]]

without(font, missing) ==
  [font EXCEPT !.glyphs = [c \in Chars |-> IF c \in missing THEN Notdef ELSE font.glyphs[c]]]

Fonts == { FullFont, without(FullFont, {"H"}), without(FullFont, {"g", "_"}) }

----------------------------------------------------------------------------
\* The script's specification

ParserIdle ==
  /\ pathData = <<>>
  /\ subpaths = <<>>
  /\ current = <<>>
  /\ currentPoint = <<>>
  /\ subpathStart = <<>>
  /\ lastCommand = <<>>
  /\ lastIndex = 1
  /\ pstate = "idle"

Init ==
  /\ ParserIdle
  /\ svgAlphabet \in Tables
  /\ keyOrder \in KeyOrders
  /\ referenceFont \in Fonts
  /\ indexTs = [svgAlphabet |-> svgAlphabet, glyphWidthRatio |-> <<>>]
  /\ baseScaleX = HORIZONTAL_SCALE
  /\ baseScaleY = VERTICAL_SCALE
  /\ generatedAlphabet = << >>
  /\ transformed = <<>>
  /\ adjusted = <<>>
  /\ glyphWidthRatio = 0
  /\ finalGlyphWidthRatio = 0
  /\ pc = "calibrate"
  /\ entry = 1
  /\ run = 1

Next ==
  \/ Calibrate
  \/ Pass1Glyph
  \/ Pass2
  \/ Pass3Width
  \/ Pass3Glyph
  \/ Metrics
  \/ WriteIndex
  \/ Rerun

Spec == Init /\ [][Next]_vars

----------------------------------------------------------------------------
\* parsePathData as a machine: one step per iteration of the command loop.
\* Its argument is a hand-written string, or what serializeSubpaths made of
\* the subpaths in adjusted (line 470).

\* longest hand-written input, in commands
MaxCommands == 3

\* a command letter and the text that follows it
Chunks ==
  { <<Ch("M")>>,
    <<Ch("M"), Num(H100(10)), Sp, Num(H100(20)), Sp, Num(H100(30)), Sp, Num(H100(50))>>,
    <<Ch("m"), Num(H100(100)), Sp, Num(H100(200))>>,
    <<Ch("m"), Num(H100(1)), Num(-H100(2)), Sp, Num(H100(4)), Sp, Num(H100(8))>>,
    <<Ch("L"), Num(H100(70)), Sp, Num(H100(90)), Sp, Num(H100(5))>>,
    <<Ch("l"), Num(H100(1)), Sp, Num(H100(0))>>,
    <<Ch("l"), Num(H100(1)), Sp, Num(H100(3)), Sp, Num(H100(5)), Sp, Num(H100(7)), Sp>>,
    <<Ch("Z")>>,
    <<Ch("z"), Sp, Num(H100(9)), Sp, Num(H100(9))>> }

RECURSIVE Strings(_)
Strings(n) ==
  IF n = 0 THEN { <<>> }
  ELSE LET shorter == Strings(n - 1) IN
       shorter \cup { s \o c : s \in shorter, c \in Chunks }

\* spec section 8, literal example 1: "M0 0L1 0L1 1L0 1Z"
Literal1 == <<Ch("M"), Num(0), Sp, Num(0), Ch("L"), Num(One), Sp, Num(0),
              Ch("L"), Num(One), Sp, Num(One), Ch("L"), Num(0), Sp, Num(One), Ch("Z")>>

\* spec section 8, literal example 2: "M0 0l1 0l0 1"
Literal2 == <<Ch("M"), Num(0), Sp, Num(0), Ch("l"), Num(One), Sp, Num(0),
              Ch("l"), Num(0), Sp, Num(One)>>

\* only white space: "  "
Blank == <<Sp, Sp>>

ParseInputs == Strings(MaxCommands) \cup {Literal1, Literal2, Blank}

\* most subpaths, and most points of a subpath, of a serialized input
MaxSubpaths == 2

MaxPoints == 2

\* coordinates with a seventh decimal, a negative one and a tie
InputPoints == { Point(1234567, -H100(50)), Point(-15, H100(100) + 4) }

RECURSIVE PointSeqs(_)
PointSeqs(n) ==
  IF n = 1 THEN { <<p>> : p \in InputPoints }
  ELSE LET shorter == PointSeqs(n - 1) IN
       shorter \cup { Append(s, p) : s \in { t \in shorter : Len(t) = n - 1 }, p \in InputPoints }

InputSubpaths == { [points |-> ps, closed |-> cl] : ps \in PointSeqs(MaxPoints), cl \in BOOLEAN }

RECURSIVE SubpathSeqs(_)
SubpathSeqs(n) ==
  IF n = 1 THEN { <<sp>> : sp \in InputSubpaths }
  ELSE LET shorter == SubpathSeqs(n - 1) IN
       shorter \cup { Append(s, sp) : s \in { t \in shorter : Len(t) = n - 1 }, sp \in InputSubpaths }

SerializerInputs == SubpathSeqs(MaxSubpaths)

ScriptIdle ==
  /\ svgAlphabet = << >>
  /\ keyOrder = KeyOrder
  /\ referenceFont = FullFont
  /\ indexTs = [svgAlphabet |-> << >>, glyphWidthRatio |-> <<>>]
  /\ baseScaleX = HORIZONTAL_SCALE
  /\ baseScaleY = VERTICAL_SCALE
  /\ generatedAlphabet = << >>
  /\ transformed = <<>>
  /\ glyphWidthRatio = 0
  /\ finalGlyphWidthRatio = 0
  /\ pc = "idle"
  /\ entry = 1
  /\ run = 1

ParseInit ==
  /\ ScriptIdle
  /\ subpaths = <<>>
  /\ current = <<>>
  /\ currentPoint = <<>>
  /\ subpathStart = <<>>
  /\ lastCommand = <<>>
  /\ lastIndex = 1
  /\ \/ /\ adjusted = <<>>
        /\ pathData \in ParseInputs
        /\ pstate = "scan"
     \/ /\ adjusted \in SerializerInputs
        /\ pathData = <<>>
        /\ pstate = "idle"

ParserState == [subpaths |-> subpaths, current |-> current,
                currentPoint |-> currentPoint, subpathStart |-> subpathStart]

\* line 470: the subpaths are serialized, and the string is parsed (lines 480, 486, 507)
Serialize ==
  /\ pstate = "idle"
  /\ adjusted # <<>>
  /\ pathData' = serializeSubpaths(adjusted)
  /\ pstate' = "scan"
  /\ UNCHANGED <<subpaths, current, currentPoint, subpathStart, lastCommand, lastIndex>>
  /\ UNCHANGED scriptVars

\* the text the pending command is applied to: up to the next command letter, or to the end
pendingData ==
  LET m == execRegex(pathData, lastIndex) IN
  Slice(pathData, lastCommand[1].index + 1, IF m = 0 THEN Len(pathData) ELSE m - 1)

applied ==
  IF lastCommand # <<>> THEN applyCommand(ParserState, lastCommand[1].cmd, pendingData)
  ELSE ParserState

\* lines 182-192: a command letter is matched; the command before it is applied
ScanCommand ==
  /\ pstate = "scan"
  /\ execRegex(pathData, lastIndex) # 0
  /\ LET m == execRegex(pathData, lastIndex) IN
     /\ lastCommand' = <<[cmd |-> pathData[m].c, index |-> m]>>
     /\ lastIndex' = m + 1
  /\ subpaths' = applied.subpaths
  /\ current' = applied.current
  /\ currentPoint' = applied.currentPoint
  /\ subpathStart' = applied.subpathStart
  /\ UNCHANGED <<pathData, pstate>>
  /\ UNCHANGED scriptVars

\* lines 183-186, 194-197: no further match; the last command is applied
ApplyLast ==
  /\ pstate = "scan"
  /\ execRegex(pathData, lastIndex) = 0
  /\ subpaths' = applied.subpaths
  /\ current' = applied.current
  /\ currentPoint' = applied.currentPoint
  /\ subpathStart' = applied.subpathStart
  /\ pstate' = "flush"
  /\ UNCHANGED <<pathData, lastCommand, lastIndex>>
  /\ UNCHANGED scriptVars

\* lines 199-200
Return ==
  /\ pstate = "flush"
  /\ LET st == flushCurrent(ParserState) IN
     /\ subpaths' = st.subpaths
     /\ current' = st.current
     /\ subpathStart' = st.subpathStart
  /\ pstate' = "returned"
  /\ UNCHANGED <<pathData, currentPoint, lastCommand, lastIndex>>
  /\ UNCHANGED scriptVars

ParseNext ==
  \/ Serialize
  \/ ScanCommand
  \/ ApplyLast
  \/ Return

SpecParse == ParseInit /\ [][ParseNext]_vars

----------------------------------------------------------------------------
\* Claims about parsePathData and serializeSubpaths (SpecParse)

\* a command with letter in letters is about to be applied
applying(letters) ==
  pstate = "scan" /\ lastCommand # <<>> /\ lastCommand[1].cmd \in letters

pendingNumbers == matchNumbers(pendingData)

\* every point parsed so far, in order
allPoints == concatPoints(subpaths \o current)

RECURSIVE sumEveryOther(_, _)
sumEveryOther(numbers, i) ==
  IF i < 1 THEN 0 ELSE numbers[i] + sumEveryOther(numbers, i - 2)

\* the i-th point of a relative command: the point before it plus the first i pairs
accumulated(base, numbers, i) ==
  Point(base.x + sumEveryOther(numbers, 2 * i - 1), base.y + sumEveryOther(numbers, 2 * i))

origin == Point(0, 0)

\* C7: a relative command (m or l) followed by k coordinate pairs appends k points,
\* the i-th being the point resolved before it (the current point for i = 1) plus
\* the i-th pair, and leaves the current point on the last of them; and
\* "M0 0l1 0l0 1" parses to (0,0), (1,0), (1,1).
RelativePairsAccumulate ==
  /\ [][ (applying({"m", "l"}) /\ Len(pendingNumbers) >= 2) =>
         LET k == Len(pendingNumbers) \div 2
             base == IF currentPoint = <<>> THEN origin ELSE currentPoint[1]
             resolved == [i \in 1..k |-> accumulated(base, pendingNumbers, i)]
         IN /\ allPoints' = allPoints \o resolved
            /\ currentPoint' = <<resolved[k]>> ]_vars
  /\ [](pstate = "returned" /\ pathData = Literal2 =>
          subpaths = << [points |-> <<Point(0, 0), Point(One, 0), Point(One, One)>>,
                         closed |-> FALSE] >>)

\* C7 witness: an l with two pairs has been applied after an earlier point
RelativePairsApplied ==
  /\ pstate = "flush"
  /\ lastCommand # <<>>
  /\ lastCommand[1].cmd = "l"
  /\ Len(matchNumbers(Slice(pathData, lastCommand[1].index + 1, Len(pathData)))) = 4
  /\ Len(allPoints) >= 3
  /\ allPoints[Len(allPoints)].x - allPoints[Len(allPoints) - 2].x = H100(6)

\* the command letter before index i of s, "" when there is none
RECURSIVE commandBefore(_, _)
commandBefore(s, i) ==
  IF i < 1 THEN ""
  ELSE IF IsCommand(s[i]) THEN s[i].c
  ELSE commandBefore(s, i - 1)

\* C8: Z or z marks the current subpath closed, changes no point, and puts the
\* current point on that subpath's first point; the first pair of a relative
\* command that follows Z resolves to that first point plus the pair.
ZClosesAndRewinds ==
  [][ /\ applying({"Z", "z"}) =>
           /\ subpaths' = subpaths
           /\ current # <<>> =>
                /\ current' = <<[points |-> current[1].points, closed |-> TRUE]>>
                /\ currentPoint' = <<current[1].points[1]>>
      /\ ( /\ applying({"m", "l"})
           /\ Len(pendingNumbers) >= 2
           /\ current # <<>>
           /\ commandBefore(pathData, lastCommand[1].index - 1) \in {"Z", "z"} ) =>
           LET anchor == current[1].points[1] IN
           allPoints'[Len(allPoints) + 1] =
             Point(anchor.x + pendingNumbers[1], anchor.y + pendingNumbers[2]) ]_vars

\* C8 witness: a relative l was applied right after a Z that closed a subpath of
\* two points or more, whose last point is not its first
RelativeAfterZApplied ==
  /\ pstate = "flush"
  /\ lastCommand # <<>>
  /\ lastCommand[1].cmd = "l"
  /\ commandBefore(pathData, lastCommand[1].index - 1) = "Z"
  /\ current # <<>>
  /\ current[1].closed
  /\ Len(current[1].points) >= 3
  /\ current[1].points[2] # current[1].points[1]

nearest6(parsed, written) ==
  parsed % Micro = 0 /\ 2 * Abs(parsed - written) <= Micro

RoundTrip ==
  (pstate = "returned" /\ adjusted # <<>>) =>
     /\ Len(subpaths) = Len(adjusted)
     /\ \A i \in 1..Len(adjusted) :
          /\ subpaths[i].closed = adjusted[i].closed
          /\ Len(subpaths[i].points) = Len(adjusted[i].points)
          /\ \A j \in 1..Len(adjusted[i].points) :
               /\ nearest6(subpaths[i].points[j].x, adjusted[i].points[j].x)
               /\ nearest6(subpaths[i].points[j].y, adjusted[i].points[j].y)

\* C2 witness: two subpaths, one closed, with roundings up and down, came back
RoundTripDone ==
  /\ pstate = "returned"
  /\ Len(adjusted) = 2
  /\ adjusted[1].closed
  /\ ~adjusted[2].closed
  /\ Len(adjusted[2].points) = 2
  /\ subpaths[1].points[1] = Point(1234570, -H100(50))
  /\ subpaths[2].points[1] = Point(-20, H100(100))

\* an unrecognized command with its arguments: "C0.33 0.44 "
Unrecognized == <<Ch("C"), Num(H100(33)), Sp, Num(H100(44)), Sp>>

\* where a command can be inserted: before a command letter, or at the end
Boundaries(s) == {i \in 1..(Len(s) + 1) : i = Len(s) + 1 \/ IsCommand(s[i])}

insertAt(s, i, u) == Slice(s, 1, i - 1) \o u \o Slice(s, i, Len(s))

\* C10 as claimed: inserting a command outside M, L, Z with its arguments changes
\* nothing in what parsePathData returns.
UnrecognizedCommandIgnored ==
  pstate = "returned" =>
     \A i \in Boundaries(pathData) :
        parsePathData(insertAt(pathData, i, Unrecognized)) = subpaths

\* tokens that are not numbers, set off by spaces: " abc ", " zap ", " null "
NonNumericTokens ==
  { <<Sp, Ch("a"), Ch("b"), Ch("c"), Sp>>,
    <<Sp, Ch("z"), Ch("a"), Ch("p"), Sp>>,
    <<Sp, Ch("n"), Ch("u"), Ch("l"), Ch("l"), Sp>> }

\* between two tokens: before a number, before a command letter, or at the end
TokenGaps(s) ==
  {i \in 1..(Len(s) + 1) : i = Len(s) + 1 \/ s[i].k = "num" \/ IsCommand(s[i])}

\* C11 as claimed: inserting a token that is not a number, whatever its letters,
\* between the tokens of a path changes nothing in what parsePathData returns.
NonNumericTokenSkipped ==
  pstate = "returned" =>
     \A i \in TokenGaps(pathData) : \A token \in NonNumericTokens :
        parsePathData(insertAt(pathData, i, token)) = subpaths

\* the part of C11 the code keeps: a token with no command letter and no digit
LetterTokenSkipped ==
  pstate = "returned" =>
     \A i \in TokenGaps(pathData) :
        parsePathData(insertAt(pathData, i, <<Sp, Ch("a"), Ch("b"), Ch("c"), Sp>>)) = subpaths

isBlank(s) == \A i \in 1..Len(s) : s[i] = Sp

\* C12: at every step of parsePathData and in what it returns, every subpath of
\* the output has at least one point; an empty or all-blank input returns the
\* empty sequence.
SubpathsHavePoints ==
  /\ \A i \in 1..Len(subpaths) : Len(subpaths[i].points) >= 1
  /\ (pstate = "returned" /\ adjusted = <<>> /\ isBlank(pathData)) => subpaths = <<>>

\* C12 witness: an input that starts with an M without coordinates and goes on with
\* an L has returned a subpath
SubpathReturnedAfterBareM ==
  /\ pstate = "returned"
  /\ Len(pathData) > 2
  /\ pathData[1] = Ch("M")
  /\ pathData[2] = Ch("L")
  /\ Len(subpaths) = 1

----------------------------------------------------------------------------
\* Claims about the script (Spec)

\* the character of the last Pass 1 iteration
lastChar == entries(svgAlphabet)[entry - 1]

afterPass1Glyph == pc = "pass1" /\ entry > 1 /\ transformed # <<>>

boxWidth(subpath) == subpathBox(subpath).maxX - subpathBox(subpath).minX

flatAndWide(subpath) ==
  /\ subpathBox(subpath).maxY = subpathBox(subpath).minY
  /\ boxWidth(subpath) > 0

\* subpath d is the dot: flat, wide, and the first of those with the smallest Y
isDot(sps, d) ==
  /\ flatAndWide(sps[d])
  /\ \A e \in 1..Len(sps) :
        flatAndWide(sps[e]) =>
           \/ subpathBox(sps[d]).minY < subpathBox(sps[e]).minY
           \/ subpathBox(sps[d]).minY = subpathBox(sps[e]).minY /\ d <= e

\* C6: for i and j, the dot subpath of the transformed glyph (zero height,
\* positive width, smallest Y) is min(its width, 0.08) wide after adjustDotSubpath.
DotShrinkBound ==
  (afterPass1Glyph /\ lastChar \in {"i", "j"}) =>
     \A d \in 1..Len(transformed) :
        isDot(transformed, d) =>
           boxWidth(adjusted[d]) = Min2(boxWidth(transformed[d]), dotTargetWidth)

\* C6 witness: the dot of an i was wider than 0.08 and is now 0.08 wide
DotShrunk ==
  /\ afterPass1Glyph
  /\ lastChar = "i"
  /\ \E d \in 1..Len(transformed) :
        /\ isDot(transformed, d)
        /\ boxWidth(transformed[d]) > dotTargetWidth
        /\ boxWidth(adjusted[d]) = dotTargetWidth

\* the padded horizontal extent of a character's glyph (lines 282-300)
paddedExtent(char) ==
  getGlyphWidthRatio(getLineSegments(generatedAlphabet[char]), strokeWidthRatio)

afterPass3 == pc \in {"write", "done"}

\* a <= b and a = b as JavaScript compares numbers: false when either is NaN
lessOrEqual(a, b) == ~isNaN(a) /\ ~isNaN(b) /\ a <= b

equalNumbers(a, b) == ~isNaN(a) /\ ~isNaN(b) /\ a = b

\* C3 as claimed: after Pass 3 no character's extent, padded by 0.09/2 on both
\* sides, exceeds the glyphWidthRatio the script exports, and the widest
\* character's equals it.
MonospaceInvariant ==
  afterPass3 =>
     /\ \A c \in DOMAIN generatedAlphabet :
           lessOrEqual(paddedExtent(c), finalGlyphWidthRatio)
     /\ \E c \in DOMAIN generatedAlphabet :
           equalNumbers(paddedExtent(c), finalGlyphWidthRatio)

\* the part of C3 the code keeps: it holds whenever the common width is a number
MonospaceUnlessNaN ==
  (afterPass3 /\ ~isNaN(glyphWidthRatio)) =>
     /\ \A c \in DOMAIN generatedAlphabet :
           lessOrEqual(paddedExtent(c), finalGlyphWidthRatio)
     /\ \E c \in DOMAIN generatedAlphabet :
           equalNumbers(paddedExtent(c), finalGlyphWidthRatio)

\* Pass 3 has moved glyphs of different widths, one of them the widest
MonospaceReached ==
  /\ afterPass3
  /\ ~isNaN(finalGlyphWidthRatio)
  /\ finalGlyphWidthRatio > strokeWidthRatio
  /\ \E c, d \in DOMAIN generatedAlphabet :
        /\ 0 < paddedExtent(c)
        /\ paddedExtent(c) < paddedExtent(d)
        /\ paddedExtent(d) = finalGlyphWidthRatio
        /\ generatedAlphabet[c] # indexTs.svgAlphabet[c]

deepest(table, char) == getMaxYFromSubpaths(parsePathData(table[char]))

presentDescenders(table) ==
  {descenderChars[i] : i \in 1..Len(descenderChars)} \cap DOMAIN table

\* C4 as claimed: with the underscore and a descender in the table, after Pass 2 the
\* underscore's largest Y is within 1e-6 of the largest Y of the descenders present.
DescenderAlignment ==
  (pc = "width" /\ "_" \in DOMAIN generatedAlphabet
                /\ presentDescenders(generatedAlphabet) # {}) =>
     \E c \in presentDescenders(generatedAlphabet) :
        /\ \A d \in presentDescenders(generatedAlphabet) :
              deepest(generatedAlphabet, d) <= deepest(generatedAlphabet, c)
        /\ Abs(deepest(generatedAlphabet, "_") - deepest(generatedAlphabet, c)) <= Epsilon

\* C5 as claimed: a glyph whose string parses to no subpath is in the final table
\* with its original string.
IdentityFallback ==
  pc = "done" =>
     \A c \in DOMAIN svgAlphabet :
        parsePathData(svgAlphabet[c]) = <<>> =>
           c \in DOMAIN generatedAlphabet /\ generatedAlphabet[c] = svgAlphabet[c]

\* C1 as claimed: the script run on the table and metrics it wrote produces the same
\* table and the same glyphWidthRatio.
Idempotent ==
  (pc = "write" /\ run >= 2) =>
     /\ generatedAlphabet = indexTs.svgAlphabet
     /\ <<formatNumber(finalGlyphWidthRatio)>> = indexTs.glyphWidthRatio

\* the parsed input of the last Pass 1 iteration
lastInput == parsePathData(svgAlphabet[lastChar])

metricsResolve(char) == getReferenceGlyphMetrics(referenceFont, char) # <<>>

\* width and height of the box of sps scaled by the fractions sx and sy
scaledExtent(sps, sx, sy) ==
  LET bbox == getBoundingBox(sps) IN
  [w |-> Scaled(bbox.maxX, sx) - Scaled(bbox.minX, sx),
   h |-> Scaled(bbox.maxY, sy) - Scaled(bbox.minY, sy)]

extent(sps) ==
  LET bbox == getBoundingBox(sps) IN
  [w |-> bbox.maxX - bbox.minX, h |-> bbox.maxY - bbox.minY]

\* C13 as claimed: a character whose reference metrics do not resolve is transformed
\* in Pass 1 with HORIZONTAL_SCALE and VERTICAL_SCALE, every other character with
\* the scale derived from the reference glyph.
PerCharacterFallback ==
  afterPass1Glyph =>
     extent(transformed) =
        IF metricsResolve(lastChar)
        THEN scaledExtent(lastInput, baseScaleX, baseScaleY)
        ELSE scaledExtent(lastInput, HORIZONTAL_SCALE, VERTICAL_SCALE)

\* the part of C13 the code keeps: every character is transformed with the one
\* scale computed up front, and the run reaches its end whatever resolves
SharedScale ==
  afterPass1Glyph => extent(transformed) = scaledExtent(lastInput, baseScaleX, baseScaleY)

\* C14 as claimed: in Pass 1 a glyph whose scaled width is at most 1 is centred in
\* the cell [0,1], the gap on its left equal to the gap on its right; a wider
\* one has its smallest X at 0.
Pass1Centered ==
  afterPass1Glyph =>
     LET bbox == getBoundingBox(transformed) IN
     IF scaledExtent(lastInput, baseScaleX, baseScaleY).w <= One
     THEN Abs(bbox.minX - (One - bbox.maxX)) <= 1
     ELSE bbox.minX = 0

\* what the Pass 1 of lines 452-455 does: every glyph has its smallest X at 0
Pass1LeftAligned ==
  afterPass1Glyph => getBoundingBox(transformed).minX = 0

\* the edges of the padded extent of a character's glyph: lines 291-297
paddedEdges(char) ==
  LET segments == getLineSegments(generatedAlphabet[char])
      radius == strokeWidthRatio \div 2
  IN [left |-> seqMin([i \in 1..Len(segments) |->
                         Min2(Minus(segments[i].x1, radius), Minus(segments[i].x2, radius))]),
      right |-> seqMax([i \in 1..Len(segments) |->
                         Max2(Plus(segments[i].x1, radius), Plus(segments[i].x2, radius))])]

hasSegments(char) == Len(getLineSegments(generatedAlphabet[char])) > 0

\* C15 as claimed: after Pass 3 every glyph with a line segment is centred in the
\* common width: the left edge of its padded extent is as far from 0 as the right
\* edge is from glyphWidthRatio, up to the 1e-6 guard and the serializer's rounding.
Pass3Centered ==
  afterPass3 =>
     \A c \in DOMAIN generatedAlphabet :
        hasSegments(c) =>
           lessOrEqual(Abs(Minus(paddedEdges(c).left,
                                 Minus(glyphWidthRatio, paddedEdges(c).right))),
                       4 * Epsilon)

\* the top edge of a glyph in the flipped frame: the largest 1 - y
topEdge(sps) ==
  LET pts == concatPoints(sps) IN seqMax([i \in 1..Len(pts) |-> One - pts[i].y])

\* C16: in Pass 1 the top edge (largest 1 - y) of the transformed glyph of a
\* character whose reference metrics resolve is that character's yMax / 1000; a
\* character whose metrics do not resolve has every 1 - y multiplied by scaleY
\* and nothing added.
VerticalPlacement ==
  afterPass1Glyph =>
     IF metricsResolve(lastChar)
     THEN topEdge(transformed)
            = getReferenceGlyphMetrics(referenceFont, lastChar)[1].yMax * DesignUnit
     ELSE \A i \in 1..Len(lastInput) : \A j \in 1..Len(lastInput[i].points) :
             One - transformed[i].points[j].y
               = Scaled(One - lastInput[i].points[j].y, baseScaleY)

\* C16 witness: the i has been moved so that its top is at 0.76, the yMax of the
\* reference i, from somewhere else
TopEdgeAligned ==
  /\ afterPass1Glyph
  /\ lastChar = "i"
  /\ metricsResolve("i")
  /\ topEdge(transformed) = 760 * DesignUnit
  /\ Scaled(topEdge(lastInput), baseScaleY) # 760 * DesignUnit

\* twice the horizontal centre of a subpath
twiceCenterX(subpath) == subpathBox(subpath).minX + subpathBox(subpath).maxX

\* C17: adjustDotSubpath returns its input for a character other than i and j and
\* for an i or j with no subpath of zero height and positive width; when there is
\* a dot, every other subpath is returned as it was and the dot keeps its Y
\* coordinates, its closed flag, its number of points and its horizontal centre.
DotFrame ==
  afterPass1Glyph =>
     /\ Len(adjusted) = Len(transformed)
     /\ ( \/ lastChar \notin {"i", "j"}
          \/ \A d \in 1..Len(transformed) : ~flatAndWide(transformed[d]) )
        => adjusted = transformed
     /\ lastChar \in {"i", "j"} =>
          \A d \in 1..Len(transformed) :
             isDot(transformed, d) =>
                /\ \A e \in 1..Len(transformed) : e # d => adjusted[e] = transformed[e]
                /\ adjusted[d].closed = transformed[d].closed
                /\ Len(adjusted[d].points) = Len(transformed[d].points)
                /\ Ys(adjusted[d].points) = Ys(transformed[d].points)
                /\ Abs(twiceCenterX(adjusted[d]) - twiceCenterX(transformed[d])) <= 2

\* C17 witness: the dot of a j, its second subpath, has been narrowed
DotOfJNarrowed ==
  /\ afterPass1Glyph
  /\ lastChar = "j"
  /\ Len(transformed) = 2
  /\ isDot(transformed, 2)
  /\ adjusted[2] # transformed[2]
  /\ adjusted[1] = transformed[1]

\* what Pass 1 writes for a character, from that character's input alone
pass1Entry(char) ==
  LET sps == parsePathData(svgAlphabet[char]) IN
  IF Len(sps) = 0 THEN svgAlphabet[char]
  ELSE serializeSubpaths(adjustDotSubpath(pass1Transform(sps, char), char))

pass1Table(chars) == [c \in chars |-> pass1Entry(c)]

\* the characters the running loop has been through
processed(table) == {entries(table)[i] : i \in 1..(entry - 1)}

\* the final table written without any order: every entry from the whole Pass 1
\* table, the aligned underscore and the common width
orderFreeTable ==
  LET aligned == alignUnderscore(pass1Table(DOMAIN svgAlphabet))
      common == maxGlyphWidth(aligned, SelectSeq(KeyOrder, LAMBDA c : c \in DOMAIN aligned), 0)
  IN [c \in DOMAIN aligned |-> centerGlyph(aligned[c], common)]

\* C18: while Pass 1 runs, the table holds what Pass 1 made of each character gone
\* through and nothing of Pass 2 or Pass 3; Pass 2 starts from the Pass 1 entries
\* of all characters; and in whatever order the keys are gone through the final
\* table is the same.
OrderIndependent ==
  /\ pc = "pass1" => generatedAlphabet = pass1Table(processed(svgAlphabet))
  /\ pc = "width" => generatedAlphabet = alignUnderscore(pass1Table(DOMAIN svgAlphabet))
  /\ pc \in {"write", "done"} => generatedAlphabet = orderFreeTable

\* C18 witness: a run that went through the keys from last to first, moved the
\* underscore in Pass 2 and a glyph in Pass 3, has ended
ReversedRunDone ==
  /\ pc = "done"
  /\ keyOrder = Reversed(KeyOrder)
  /\ alignUnderscore(pass1Table(DOMAIN svgAlphabet))["_"] # pass1Entry("_")
  /\ \E c \in DOMAIN svgAlphabet : generatedAlphabet[c] # alignUnderscore(pass1Table(DOMAIN svgAlphabet))[c]
  /\ generatedAlphabet = orderFreeTable

\* the largest Y of the descenders of a table
descenderDepth(table) ==
  LET depths == {deepest(table, c) : c \in presentDescenders(table)} IN
  CHOOSE m \in depths : \A n \in depths : n <= m

\* sps is what before becomes when delta is added to every Y and nothing else changes
shiftedInY(before, sps, delta) ==
  /\ Len(sps) = Len(before)
  /\ \A i \in 1..Len(before) :
        /\ sps[i].closed = before[i].closed
        /\ Len(sps[i].points) = Len(before[i].points)
        /\ \A j \in 1..Len(before[i].points) :
              /\ sps[i].points[j].x = before[i].points[j].x
              /\ sps[i].points[j].y = before[i].points[j].y + delta

\* C19: Pass 2 changes no entry but the underscore's; when it moves the underscore
\* every Y gets the same delta, and the X, the number of points and the closed
\* flags stay; when the shift to the deepest descender is 1e-6 or less in absolute
\* value, the underscore's string stays as Pass 1 wrote it.
Pass2Frame ==
  [][ (pc = "pass1" /\ pc' = "width") =>
        /\ DOMAIN generatedAlphabet' = DOMAIN generatedAlphabet
        /\ \A c \in DOMAIN generatedAlphabet :
              c # "_" => generatedAlphabet'[c] = generatedAlphabet[c]
        /\ "_" \in DOMAIN generatedAlphabet =>
              LET before == parsePathData(generatedAlphabet["_"])
                  after == parsePathData(generatedAlphabet'["_"])
              IN /\ generatedAlphabet'["_"] # generatedAlphabet["_"] =>
                      shiftedInY(before, after,
                                 after[1].points[1].y - before[1].points[1].y)
                 /\ ( /\ presentDescenders(generatedAlphabet) # {}
                      /\ Abs(descenderDepth(generatedAlphabet)
                             - deepest(generatedAlphabet, "_")) <= Epsilon )
                    => generatedAlphabet'["_"] = generatedAlphabet["_"] ]_vars

\* C19 witness: Pass 2 has moved the underscore down onto the deepest descender
UnderscoreMoved ==
  /\ pc = "width"
  /\ "_" \in DOMAIN generatedAlphabet
  /\ generatedAlphabet["_"] # pass1Entry("_")
  /\ deepest(generatedAlphabet, "_") = descenderDepth(generatedAlphabet)
  /\ deepest(generatedAlphabet, "_") > getMaxYFromSubpaths(parsePathData(pass1Entry("_")))

\* the guard of line 489 at work: an underscore 1e-6 off the descender is left there
UnderscoreLeftNear ==
  /\ pc = "width"
  /\ "_" \in DOMAIN generatedAlphabet
  /\ generatedAlphabet["_"] = pass1Entry("_")
  /\ Abs(deepest(generatedAlphabet, "_") - descenderDepth(generatedAlphabet)) = Epsilon

\* b has as many subpaths as a, each with as many points and the same closed flag
sameStructure(a, b) ==
  /\ Len(b) = Len(a)
  /\ \A i \in 1..Len(a) :
        /\ Len(b[i].points) = Len(a[i].points)
        /\ b[i].closed = a[i].closed

\* C20 as claimed: the final table has the keys of the input table, and the entry
\* of every glyph whose input parses to at least one subpath parses to as many
\* subpaths, each with as many points and the same closed flag.
StructurePreserved ==
  afterPass3 =>
     /\ DOMAIN generatedAlphabet = DOMAIN svgAlphabet
     /\ \A c \in DOMAIN svgAlphabet :
           parsePathData(svgAlphabet[c]) # <<>> =>
              sameStructure(parsePathData(svgAlphabet[c]),
                            parsePathData(generatedAlphabet[c]))

\* the part of C20 the code keeps: structure is preserved whenever the common
\* width is a number, and up to the end of Pass 2 in every run
StructurePreservedUnlessNaN ==
  /\ (afterPass3 /\ ~isNaN(glyphWidthRatio)) =>
        /\ DOMAIN generatedAlphabet = DOMAIN svgAlphabet
        /\ \A c \in DOMAIN svgAlphabet :
              parsePathData(svgAlphabet[c]) # <<>> =>
                 sameStructure(parsePathData(svgAlphabet[c]),
                               parsePathData(generatedAlphabet[c]))
  /\ pc = "width" =>
        \A c \in DOMAIN svgAlphabet :
           parsePathData(svgAlphabet[c]) # <<>> =>
              sameStructure(parsePathData(svgAlphabet[c]),
                            parsePathData(generatedAlphabet[c]))

----------------------------------------------------------------------------
\* Claims about the two readers of a serialized path (SpecParse)

\* the width the parser's reader sees: largest X minus smallest X over all points
parsedWidth(sps) ==
  LET pts == concatPoints(sps) IN seqMax(Xs(pts)) - seqMin(Xs(pts))

\* the width the segment reader sees, padded by the stroke width w
segmentWidth(s, w) == getGlyphWidthRatio(getLineSegments(s), w)

\* C21 as claimed: for a string written by serializeSubpaths from at least one
\* subpath, getGlyphWidthRatio(getLineSegments(path), w) is the largest X minus the
\* smallest X of the points parsePathData reads from it, plus w.
ReadersAgree ==
  (pstate = "returned" /\ adjusted # <<>>) =>
     equalNumbers(segmentWidth(pathData, strokeWidthRatio),
                  parsedWidth(subpaths) + strokeWidthRatio)

\* the part of C21 the code keeps: the readers agree when every subpath has two
\* points or more
ReadersAgreeOnLines ==
  (pstate = "returned" /\ adjusted # <<>>
     /\ \A i \in 1..Len(adjusted) : Len(adjusted[i].points) >= 2) =>
     equalNumbers(segmentWidth(pathData, strokeWidthRatio),
                  parsedWidth(subpaths) + strokeWidthRatio)

----------------------------------------------------------------------------
\* Claims about appending after Z (SpecParse)

\* how many M and m letters a string has
RECURSIVE countM(_)
countM(s) ==
  IF s = <<>> THEN 0
  ELSE (IF Head(s) \in {Ch("M"), Ch("m")} THEN 1 ELSE 0) + countM(Tail(s))

\* C22: an L or l that comes right after a Z, points having been read before it,
\* appends its points to the subpath the Z closed, which stays closed, and starts
\* no subpath; what parsePathData returns has at most one subpath more than the
\* string has M commands.
ClosedSubpathStaysCurrent ==
  /\ [][ ( /\ applying({"L", "l"})
           /\ commandBefore(pathData, lastCommand[1].index - 1) \in {"Z", "z"}
           /\ allPoints # <<>> ) =>
           /\ current # <<>>
           /\ current[1].closed
           /\ subpaths' = subpaths
           /\ current' # <<>>
           /\ current'[1].closed
           /\ Len(current'[1].points) = Len(current[1].points) + Len(pendingNumbers) \div 2
           /\ SubSeq(current'[1].points, 1, Len(current[1].points)) = current[1].points ]_vars
  /\ [](pstate = "returned" => Len(subpaths) <= countM(pathData) + 1)

\* C22 witness: an absolute L has put a point on a subpath of two points that a Z
\* had closed, and it is still the only subpath
AbsoluteAfterZApplied ==
  /\ pstate = "flush"
  /\ lastCommand # <<>>
  /\ lastCommand[1].cmd = "L"
  /\ commandBefore(pathData, lastCommand[1].index - 1) = "Z"
  /\ subpaths = <<>>
  /\ current # <<>>
  /\ current[1].closed
  /\ Len(current[1].points) = 3
  /\ current[1].points[3] = Point(H100(70), H100(90))

\* the bound of C22 is met: an L before the first M gives one subpath more than
\* there are M commands
OneMoreThanM ==
  /\ pstate = "returned"
  /\ adjusted = <<>>
  /\ Len(subpaths) = countM(pathData) + 1

====
